---- MODULE Spec2Model ----
(***************************************************************************)
(* Model of src/iss_tkintermapview.py: the ISSTracker object, its          *)
(* construction, the polling thread (update_iss_position_thread), the Tk   *)
(* event loop running update_marker_position callbacks, and quit().        *)
(*                                                                         *)
(* Coordinates: the server's answer to the k-th request of the process is  *)
(* sample k, whose latitude and longitude are both written k (k >= 1), so  *)
(* that a pair <<a, b>> with a # b is a pair mixing two fetches.  The      *)
(* literal fallback position of initialize_marker stays <<0, 0>>.          *)
(* Python statements of the two threads interleave at attribute reads and  *)
(* writes, so every shared read and write is a step of its own.            *)
(***************************************************************************)
EXTENDS Integers, Sequences, FiniteSets, TLC

\* Bounds of the model (not program constants).
MaxFetches == 5        \* fetches issued by the polling loop
LiveFetches == 3       \* the same, in the behaviours checked for liveness
MaxQuitCalls == 2      \* calls of quit()
SleepTicks == 2        \* clock ticks that make up one update_interval

\* An attribute that has not been assigned yet (self.latitude before line 115).
Unset == -1
\* Python's None for self.marker (line 68) and for a map that does not exist.
None == <<>>

VARIABLES
    mainPc,        \* main thread: position in __init__ / main()
    running,       \* self.running
    count,         \* self.count
    latitude,      \* self.latitude
    longitude,     \* self.longitude
    marker,        \* position of self.marker, None when there is no marker
    mapCentre,     \* centre of self.map, None before create_widgets
    lblCount,      \* number shown by self.lbl_count
    lblLat,        \* value shown by self.lbl_lat
    lblLon,        \* value shown by self.lbl_lon
    rootDestroyed, \* self.root.destroy() has run
    afterQueue,    \* pending root.after(0, update_marker_position) callbacks
    uiPc,          \* UI thread: position inside update_marker_position
    uiMarkerSeen,  \* "if self.marker" was true in the running callback
    uiLat,         \* self.latitude loaded for the call being assembled, if any
    quitCalls,     \* number of quit() calls made
    quitRaised,    \* a quit() call raised
    pollPc,        \* polling thread: position in update_iss_position_thread
    position,      \* local "position" of get_iss_position in the polling thread
    loopFetches,   \* history: fetches started by the polling loop
    loopOk,        \* history: polling-loop fetches that returned normally
    ctorOk,        \* history: fetches of __init__ that returned normally (0, 1)
    ctorFailed,    \* history: the fetch of __init__ raised
    lastOutcome,   \* history: outcome of the last polling-loop fetch
    fetchStart,    \* history: <<latitude, longitude, count>> when it started
    enqueued,      \* history: root.after calls that succeeded
    pollerWidgetOps, \* history: widgets the polling thread operated on
    mainFetches,   \* history: requests issued by the main (UI) thread
    markersCreated, \* history: map.set_marker calls made
    sleepLeft,     \* ticks left of the sleep(self.update_interval) under way
    slept,         \* history: a sleep has returned since the last response
    fetchesAfterQuit \* history: requests the loop issued after a quit()

vars == <<mainPc, running, count, latitude, longitude, marker, mapCentre,
          lblCount, lblLat, lblLon, rootDestroyed, afterQueue, uiPc,
          uiMarkerSeen, uiLat, quitCalls, quitRaised, pollPc, position,
          loopFetches, loopOk, ctorOk, ctorFailed, lastOutcome, fetchStart,
          enqueued, pollerWidgetOps, mainFetches, markersCreated, sleepLeft,
          slept, fetchesAfterQuit>>

mainVars == <<mainPc, running, rootDestroyed, quitCalls, quitRaised>>
uiVars == <<marker, mapCentre, afterQueue, uiPc, uiMarkerSeen, uiLat>>
lblVars == <<lblCount, lblLat, lblLon>>
posVars == <<latitude, longitude>>
pollHist == <<loopFetches, loopOk, lastOutcome, fetchStart>>
ctorHist == <<ctorOk, ctorFailed, mainFetches>>
pollTime == <<sleepLeft, slept, fetchesAfterQuit>>

----------------------------------------------------------------------------
\* The HTTP exchange of get_iss_position.

NoField == [kind |-> "missing", val |-> Unset]

\* What position.get(name) can be for sample k: a JSON number, a string
\* holding a number, absent (None), or a string that is not a number.
JsonField(k) ==
    { [kind |-> "num", val |-> k], [kind |-> "str", val |-> k],
      NoField, [kind |-> "text", val |-> Unset] }

\* Outcomes of requests.get / raise_for_status / response.json for sample k.
Responses(k) ==
    { [status |-> s, lat |-> NoField, lon |-> NoField] :
          s \in {"conn_error", "http_error", "bad_json"} }
    \cup { [status |-> "ok", lat |-> a, lon |-> b] :
          a \in JsonField(k), b \in JsonField(k) }

\* The local "position" while get_iss_position holds no parsed body.
NoResponse == [status |-> "none", lat |-> NoField, lon |-> NoField]

\* float(v) returns for a number or a numeric string and raises otherwise
\* (TypeError for None, ValueError for other text).
CanFloat(v) == v.kind \in {"num", "str"}
ToFloat(v) == v.val

\* The request of __init__ is answered with sample 1, the j-th request of the
\* polling loop with sample j + 1.
CtorSample == 1
LoopSample == loopFetches + 1

----------------------------------------------------------------------------
\* State at line 68 of __init__: attributes set, no fetch made, no widget.
Init ==
    /\ mainPc = "ctor_fetch"
    /\ running = FALSE
    /\ count = 0
    /\ latitude = Unset
    /\ longitude = Unset
    /\ marker = None
    /\ mapCentre = None
    /\ lblCount = Unset
    /\ lblLat = Unset
    /\ lblLon = Unset
    /\ rootDestroyed = FALSE
    /\ afterQueue = 0
    /\ uiPc = "idle"
    /\ uiMarkerSeen = FALSE
    /\ uiLat = Unset
    /\ quitCalls = 0
    /\ quitRaised = FALSE
    /\ pollPc = "not_started"
    /\ position = NoResponse
    /\ loopFetches = 0
    /\ loopOk = 0
    /\ ctorOk = 0
    /\ ctorFailed = FALSE
    /\ lastOutcome = "none"
    /\ fetchStart = <<Unset, Unset, 0>>
    /\ enqueued = 0
    /\ pollerWidgetOps = {}
    /\ mainFetches = 0
    /\ markersCreated = 0
    /\ sleepLeft = 0
    /\ slept = FALSE
    /\ fetchesAfterQuit = 0

----------------------------------------------------------------------------
\* Main thread: __init__ and main().

CtorFetch_Counts ==
    /\ mainPc = "ctor_fetch"
    /\ mainFetches' = mainFetches + 1
    /\ \E r \in Responses(CtorSample) :
          IF r.status = "ok" /\ CanFloat(r.lat) /\ CanFloat(r.lon)
          THEN /\ latitude' = ToFloat(r.lat)
               /\ longitude' = ToFloat(r.lon)
               /\ count' = count + 1
               /\ mainPc' = "create_widgets"
               /\ ctorOk' = 1
               /\ UNCHANGED ctorFailed
          ELSE /\ latitude' = IF r.status = "ok" /\ CanFloat(r.lat)
                                THEN ToFloat(r.lat) ELSE latitude
               /\ UNCHANGED <<longitude, count>>
               /\ mainPc' = "raised"
               /\ ctorFailed' = TRUE
               /\ UNCHANGED ctorOk
    /\ UNCHANGED <<running, rootDestroyed, quitCalls, quitRaised,
                   uiVars, lblVars, pollPc, position, pollHist, enqueued,
                   pollerWidgetOps, markersCreated, pollTime>>

\* self.get_iss_position() at line 69.  Nothing in __init__ catches what it
\* raises, so a failure leaves the constructor with the exception.
CtorFetch ==
    /\ mainPc = "ctor_fetch"
    /\ mainFetches' = mainFetches + 1
    /\ \E r \in Responses(CtorSample) :
          IF r.status = "ok" /\ CanFloat(r.lat) /\ CanFloat(r.lon)
          THEN /\ latitude' = ToFloat(r.lat)
               /\ longitude' = ToFloat(r.lon)
               /\ mainPc' = "create_widgets"
               /\ ctorOk' = 1
               /\ UNCHANGED ctorFailed
          ELSE /\ latitude' = IF r.status = "ok" /\ CanFloat(r.lat)
                                THEN ToFloat(r.lat) ELSE latitude
               /\ UNCHANGED longitude
               /\ mainPc' = "raised"
               /\ ctorFailed' = TRUE
               /\ UNCHANGED ctorOk
    /\ UNCHANGED <<running, count, rootDestroyed, quitCalls, quitRaised,
                   uiVars, lblVars, pollPc, position, pollHist, enqueued,
                   pollerWidgetOps, markersCreated, pollTime>>

\* create_widgets: the map is centred on the fetched position and the labels
\* show it; the count label is built with the text "Count: 0".
CreateWidgets ==
    /\ mainPc = "create_widgets"
    /\ mapCentre' = <<latitude, longitude>>
    /\ lblLat' = latitude
    /\ lblLon' = longitude
    /\ lblCount' = 0
    /\ mainPc' = "initialize_marker"
    /\ UNCHANGED <<running, count, posVars, marker, rootDestroyed, afterQueue,
                   uiPc, uiMarkerSeen, uiLat, quitCalls, quitRaised, pollPc,
                   position, pollHist, ctorHist, enqueued, pollerWidgetOps,
                   markersCreated, pollTime>>

\* initialize_marker: set_marker at the stored position; the except branch
\* (position attributes missing) puts the marker at 0, 0.
InitializeMarker ==
    /\ mainPc = "initialize_marker"
    /\ marker' = IF latitude = Unset \/ longitude = Unset
                 THEN <<0, 0>>
                 ELSE <<latitude, longitude>>
    /\ markersCreated' = markersCreated + 1
    /\ mainPc' = "constructed"
    /\ UNCHANGED <<running, count, posVars, mapCentre, lblVars, rootDestroyed,
                   afterQueue, uiPc, uiMarkerSeen, uiLat, quitCalls,
                   quitRaised, pollPc, position, pollHist, ctorHist, enqueued,
                   pollerWidgetOps, pollTime>>

\* run(): running = True, the thread is started, the event loop is entered.
Run ==
    /\ mainPc = "constructed"
    /\ running' = TRUE
    /\ pollPc' = "test"
    /\ mainPc' = "mainloop"
    /\ UNCHANGED <<count, posVars, uiVars, lblVars, rootDestroyed, quitCalls,
                   quitRaised, position, pollHist, ctorHist, enqueued,
                   pollerWidgetOps, markersCreated, pollTime>>

Quit_KeepsRunning ==
    /\ mainPc = "mainloop"
    /\ uiPc = "idle"
    /\ quitCalls < MaxQuitCalls
    /\ quitCalls' = quitCalls + 1
    /\ IF rootDestroyed
       THEN /\ quitRaised' = TRUE
            /\ UNCHANGED <<rootDestroyed, afterQueue>>
       ELSE /\ rootDestroyed' = TRUE
            /\ afterQueue' = 0
            /\ UNCHANGED quitRaised
    /\ UNCHANGED <<mainPc, running, count, posVars, marker, mapCentre,
                   lblVars, uiPc, uiMarkerSeen, uiLat, pollPc, position,
                   pollHist, ctorHist, enqueued, pollerWidgetOps,
                   markersCreated, pollTime>>

\* quit(): clears the flag, then destroys the root.  Destroying the root
\* drops the pending after-callbacks; destroying a root that is already
\* destroyed raises TclError.  It runs on the UI thread, between callbacks.
Quit ==
    /\ mainPc = "mainloop"
    /\ uiPc = "idle"
    /\ quitCalls < MaxQuitCalls
    /\ quitCalls' = quitCalls + 1
    /\ running' = FALSE
    /\ IF rootDestroyed
       THEN /\ quitRaised' = TRUE
            /\ UNCHANGED <<rootDestroyed, afterQueue>>
       ELSE /\ rootDestroyed' = TRUE
            /\ afterQueue' = 0
            /\ UNCHANGED quitRaised
    /\ UNCHANGED <<mainPc, count, posVars, marker, mapCentre, lblVars, uiPc,
                   uiMarkerSeen, uiLat, pollPc, position, pollHist, ctorHist,
                   enqueued, pollerWidgetOps, markersCreated, pollTime>>

----------------------------------------------------------------------------
\* Polling thread: update_iss_position_thread, one step per statement.

pollFrame == <<mainVars, uiVars, ctorHist>>

PollTest_IgnoresFlag ==
    /\ pollPc = "test"
    /\ loopFetches < MaxFetches
    /\ pollPc' = "call"
    /\ loopFetches' = loopFetches + 1
    /\ fetchStart' = <<latitude, longitude, count>>
    /\ lastOutcome' = "pending"
    /\ UNCHANGED <<pollFrame, count, posVars, lblVars, position, loopOk,
                   enqueued, pollerWidgetOps, markersCreated, pollTime>>

\* "while self.running": enter the body (the try block calls
\* get_iss_position, remembered state is for the properties) or leave.
PollTest ==
    /\ pollPc = "test"
    /\ running => loopFetches < MaxFetches
    /\ IF running
       THEN /\ pollPc' = "call"
            /\ loopFetches' = loopFetches + 1
            /\ fetchStart' = <<latitude, longitude, count>>
            /\ lastOutcome' = "pending"
       ELSE /\ pollPc' = "done"
            /\ UNCHANGED <<loopFetches, fetchStart, lastOutcome>>
    /\ UNCHANGED <<pollFrame, count, posVars, lblVars, position, loopOk,
                   enqueued, pollerWidgetOps, markersCreated, pollTime>>

\* Lines 123 and 106: get_iss_position is entered and requests.get sends the
\* request; the thread then blocks until the response arrives.
PollCall ==
    /\ pollPc = "call"
    /\ pollPc' = "fetch"
    /\ slept' = FALSE
    /\ fetchesAfterQuit' = IF quitCalls > 0 THEN fetchesAfterQuit + 1
                                            ELSE fetchesAfterQuit
    /\ UNCHANGED <<pollFrame, count, posVars, lblVars, position, pollHist,
                   enqueued, pollerWidgetOps, markersCreated, sleepLeft>>

\* Lines 106-112: the request returns; an error status, a connection error
\* or a body that is not JSON raises before anything is stored.
PollFetch ==
    /\ pollPc = "fetch"
    /\ \E r \in Responses(LoopSample) :
          IF r.status = "ok"
          THEN /\ position' = r
               /\ pollPc' = "write_lat"
               /\ UNCHANGED lastOutcome
          ELSE /\ pollPc' = "except"
               /\ lastOutcome' = "fail"
               /\ UNCHANGED position
    /\ UNCHANGED <<pollFrame, count, posVars, lblVars, loopFetches, loopOk,
                   fetchStart, enqueued, pollerWidgetOps,
                   markersCreated, pollTime>>

\* Line 115: self.latitude = float(position.get("latitude")).
PollWriteLat ==
    /\ pollPc = "write_lat"
    /\ IF CanFloat(position.lat)
       THEN /\ latitude' = ToFloat(position.lat)
            /\ pollPc' = "write_lon"
            /\ UNCHANGED <<lastOutcome, position>>
       ELSE /\ pollPc' = "except"
            /\ lastOutcome' = "fail"
            /\ position' = NoResponse
            /\ UNCHANGED latitude
    /\ UNCHANGED <<pollFrame, count, longitude, lblVars,
                   loopFetches, loopOk, fetchStart, enqueued, pollerWidgetOps,
                   markersCreated, pollTime>>

\* Line 116: self.longitude = float(position.get("longitude")); the fetch
\* has succeeded when this returns.
PollWriteLon ==
    /\ pollPc = "write_lon"
    /\ IF CanFloat(position.lon)
       THEN /\ longitude' = ToFloat(position.lon)
            /\ pollPc' = "inc"
            /\ lastOutcome' = "ok"
            /\ loopOk' = loopOk + 1
       ELSE /\ pollPc' = "except"
            /\ lastOutcome' = "fail"
            /\ UNCHANGED <<longitude, loopOk>>
    /\ position' = NoResponse
    /\ UNCHANGED <<pollFrame, count, latitude, lblVars,
                   loopFetches, fetchStart, enqueued, pollerWidgetOps,
                   markersCreated, pollTime>>

PollIncrement_Twice ==
    /\ pollPc = "inc"
    /\ count' = count + 2
    /\ pollPc' = "lbl_count"
    /\ UNCHANGED <<pollFrame, posVars, lblVars, position, pollHist, enqueued,
                   pollerWidgetOps, markersCreated, pollTime>>

\* Line 125: self.count += 1.
PollIncrement ==
    /\ pollPc = "inc"
    /\ count' = count + 1
    /\ pollPc' = "lbl_count"
    /\ UNCHANGED <<pollFrame, posVars, lblVars, position, pollHist, enqueued,
                   pollerWidgetOps, markersCreated, pollTime>>

\* Line 126: self.lbl_count.configure(...), called by the polling thread.
\* A widget of a destroyed root raises TclError.
PollLblCount ==
    /\ pollPc = "lbl_count"
    /\ pollerWidgetOps' = pollerWidgetOps \cup {"lbl_count"}
    /\ IF rootDestroyed
       THEN /\ pollPc' = "except"
            /\ UNCHANGED lblCount
       ELSE /\ lblCount' = count
            /\ pollPc' = "lbl_lat"
    /\ UNCHANGED <<pollFrame, count, posVars, lblLat, lblLon, position,
                   pollHist, enqueued, markersCreated, pollTime>>

\* Line 127: self.lbl_lat.configure(...).
PollLblLat ==
    /\ pollPc = "lbl_lat"
    /\ pollerWidgetOps' = pollerWidgetOps \cup {"lbl_lat"}
    /\ IF rootDestroyed
       THEN /\ pollPc' = "except"
            /\ UNCHANGED lblLat
       ELSE /\ lblLat' = latitude
            /\ pollPc' = "lbl_lon"
    /\ UNCHANGED <<pollFrame, count, posVars, lblCount, lblLon, position,
                   pollHist, enqueued, markersCreated, pollTime>>

\* Lines 128-130: self.lbl_lon.configure(...).
PollLblLon ==
    /\ pollPc = "lbl_lon"
    /\ pollerWidgetOps' = pollerWidgetOps \cup {"lbl_lon"}
    /\ IF rootDestroyed
       THEN /\ pollPc' = "except"
            /\ UNCHANGED lblLon
       ELSE /\ lblLon' = longitude
            /\ pollPc' = "after"
    /\ UNCHANGED <<pollFrame, count, posVars, lblCount, lblLat, position,
                   pollHist, enqueued, markersCreated, pollTime>>

PollAfter_NoEnqueue ==
    /\ pollPc = "after"
    /\ pollPc' = IF rootDestroyed THEN "except" ELSE "sleep"
    /\ sleepLeft' = IF rootDestroyed THEN sleepLeft ELSE SleepTicks
    /\ UNCHANGED <<mainVars, marker, mapCentre, afterQueue, uiPc,
                   uiMarkerSeen, uiLat, ctorHist, count, posVars, lblVars,
                   position, pollHist, enqueued, pollerWidgetOps,
                   markersCreated, slept, fetchesAfterQuit>>

\* Line 134: self.root.after(0, self.update_marker_position) queues one
\* callback for the event loop; on a destroyed root it raises.  Line 137
\* then starts sleep(self.update_interval).
PollAfter ==
    /\ pollPc = "after"
    /\ IF rootDestroyed
       THEN /\ pollPc' = "except"
            /\ UNCHANGED <<afterQueue, enqueued, sleepLeft>>
       ELSE /\ afterQueue' = afterQueue + 1
            /\ enqueued' = enqueued + 1
            /\ sleepLeft' = SleepTicks
            /\ pollPc' = "sleep"
    /\ UNCHANGED <<mainVars, marker, mapCentre, uiPc, uiMarkerSeen, uiLat,
                   ctorHist, count, posVars, lblVars, position, pollHist,
                   pollerWidgetOps, markersCreated, slept, fetchesAfterQuit>>

\* Time passes while the polling thread is in sleep(self.update_interval).
Tick ==
    /\ pollPc = "sleep"
    /\ sleepLeft > 0
    /\ sleepLeft' = sleepLeft - 1
    /\ UNCHANGED <<pollFrame, pollPc, count, posVars, lblVars, position,
                   pollHist, enqueued, pollerWidgetOps, markersCreated, slept,
                   fetchesAfterQuit>>

PollSleep_WakesOnQuit ==
    /\ pollPc = "sleep"
    /\ sleepLeft = 0 \/ ~running
    /\ pollPc' = "test"
    /\ slept' = TRUE
    /\ sleepLeft' = 0
    /\ UNCHANGED <<pollFrame, count, posVars, lblVars, position, pollHist,
                   enqueued, pollerWidgetOps, markersCreated,
                   fetchesAfterQuit>>

\* Line 137: sleep(self.update_interval) returns once the interval is over;
\* time.sleep takes no notice of self.running.
PollSleep ==
    /\ pollPc = "sleep"
    /\ sleepLeft = 0
    /\ pollPc' = "test"
    /\ slept' = TRUE
    /\ UNCHANGED <<pollFrame, count, posVars, lblVars, position, pollHist,
                   enqueued, pollerWidgetOps, markersCreated, sleepLeft,
                   fetchesAfterQuit>>

PollExcept_Exits ==
    /\ pollPc = "except"
    /\ pollPc' = "done"
    /\ UNCHANGED <<pollFrame, count, posVars, lblVars, position, pollHist,
                   enqueued, pollerWidgetOps, markersCreated, pollTime>>

PollExcept_Rollback ==
    /\ pollPc = "except"
    /\ pollPc' = "test"
    /\ latitude' = fetchStart[1]
    /\ longitude' = fetchStart[2]
    /\ UNCHANGED <<pollFrame, count, lblVars, position, pollHist,
                   enqueued, pollerWidgetOps, markersCreated, pollTime>>

\* Lines 139-140: except Exception: print; control returns to the while test.
PollExcept ==
    /\ pollPc = "except"
    /\ pollPc' = "test"
    /\ UNCHANGED <<pollFrame, count, posVars, lblVars, position, pollHist,
                   enqueued, pollerWidgetOps, markersCreated, pollTime>>

----------------------------------------------------------------------------
\* UI thread: the event loop runs one queued update_marker_position at a time.

uiFrame == <<mainVars, count, posVars, lblVars, pollPc, position, pollHist,
             ctorHist, enqueued, pollerWidgetOps, pollTime>>

UiDispatch_InvertedTest ==
    /\ mainPc = "mainloop"
    /\ ~rootDestroyed
    /\ uiPc = "idle"
    /\ afterQueue > 0
    /\ afterQueue' = afterQueue - 1
    /\ uiMarkerSeen' = (marker = None)
    /\ uiPc' = "marker_lat"
    /\ UNCHANGED <<uiFrame, marker, mapCentre, uiLat, markersCreated>>

\* The event loop takes the oldest callback; line 145: "if self.marker".
UiDispatch ==
    /\ mainPc = "mainloop"
    /\ ~rootDestroyed
    /\ uiPc = "idle"
    /\ afterQueue > 0
    /\ afterQueue' = afterQueue - 1
    /\ uiMarkerSeen' = (marker # None)
    /\ uiPc' = "marker_lat"
    /\ UNCHANGED <<uiFrame, marker, mapCentre, uiLat, markersCreated>>

UiMarkerLat_Fetches ==
    /\ uiPc = "marker_lat"
    /\ mainFetches' = mainFetches + 1
    /\ uiLat' = latitude
    /\ uiPc' = "marker_lon"
    /\ UNCHANGED <<mainVars, count, posVars, lblVars, pollPc, position,
                   pollHist, ctorOk, ctorFailed, enqueued, pollerWidgetOps,
                   pollTime, marker, mapCentre, afterQueue, uiMarkerSeen,
                   markersCreated>>

\* Line 146 (or 151): self.latitude is loaded for the marker call.
UiMarkerLat ==
    /\ uiPc = "marker_lat"
    /\ uiLat' = latitude
    /\ uiPc' = "marker_lon"
    /\ UNCHANGED <<uiFrame, marker, mapCentre, afterQueue, uiMarkerSeen,
                   markersCreated>>

\* Line 146: self.longitude is loaded and marker.set_position is called;
\* with no marker, lines 150-156 create it and the callback returns.
UiMarkerLon ==
    /\ uiPc = "marker_lon"
    /\ marker' = <<uiLat, longitude>>
    /\ markersCreated' = IF uiMarkerSeen THEN markersCreated
                                         ELSE markersCreated + 1
    /\ uiPc' = IF uiMarkerSeen THEN "centre_lat" ELSE "idle"
    /\ uiLat' = Unset
    /\ UNCHANGED <<uiFrame, mapCentre, afterQueue, uiMarkerSeen>>

\* Line 147: self.latitude is loaded again for map.set_position.
UiCentreLat ==
    /\ uiPc = "centre_lat"
    /\ uiLat' = latitude
    /\ uiPc' = "centre_lon"
    /\ UNCHANGED <<uiFrame, marker, mapCentre, afterQueue, uiMarkerSeen,
                   markersCreated>>

UiCentreLon_NoRecentre ==
    /\ uiPc = "centre_lon"
    /\ uiPc' = "idle"
    /\ uiLat' = Unset
    /\ uiMarkerSeen' = FALSE
    /\ UNCHANGED <<uiFrame, marker, mapCentre, afterQueue, markersCreated>>

\* Line 147: self.longitude is loaded and map.set_position is called.
UiCentreLon ==
    /\ uiPc = "centre_lon"
    /\ mapCentre' = <<uiLat, longitude>>
    /\ uiPc' = "idle"
    /\ uiLat' = Unset
    /\ uiMarkerSeen' = FALSE
    /\ UNCHANGED <<uiFrame, marker, afterQueue, markersCreated>>

----------------------------------------------------------------------------
Next ==
    \/ CtorFetch
    \/ CreateWidgets
    \/ InitializeMarker
    \/ Run
    \/ Quit
    \/ PollTest
    \/ PollCall
    \/ PollFetch
    \/ PollWriteLat
    \/ PollWriteLon
    \/ PollIncrement
    \/ PollLblCount
    \/ PollLblLat
    \/ PollLblLon
    \/ PollAfter
    \/ Tick
    \/ PollSleep
    \/ PollExcept
    \/ UiDispatch
    \/ UiMarkerLat
    \/ UiMarkerLon
    \/ UiCentreLat
    \/ UiCentreLon

Spec == Init /\ [][Next]_vars

\* The loop test in the behaviours checked for liveness: those with at most
\* LiveFetches fetches of the polling loop.
LivePollTest == PollTest /\ loopFetches' <= LiveFetches

\* The steps of the polling thread, the passing of time during its sleep
\* included.
PollerNext ==
    \/ LivePollTest
    \/ PollCall
    \/ PollFetch
    \/ PollWriteLat
    \/ PollWriteLon
    \/ PollIncrement
    \/ PollLblCount
    \/ PollLblLat
    \/ PollLblLon
    \/ PollAfter
    \/ Tick
    \/ PollSleep
    \/ PollExcept

LiveNext ==
    \/ CtorFetch
    \/ CreateWidgets
    \/ InitializeMarker
    \/ Run
    \/ Quit
    \/ PollerNext
    \/ UiDispatch
    \/ UiMarkerLat
    \/ UiMarkerLon
    \/ UiCentreLat
    \/ UiCentreLon

\* The polling thread is scheduled again and again, and every request and
\* every sleep it waits for returns.
FairSpec == Init /\ [][LiveNext]_vars /\ WF_vars(PollerNext)

----------------------------------------------------------------------------
\* Properties.

\* The polling thread is between iterations: nothing of the last iteration
\* is left to run.
IterationFinished == pollPc \in {"sleep", "test", "done"}

\* C1: every pair the UI thread applies to the marker or to the map has its
\* latitude and its longitude from the same fetch.
C1_NoTornRead ==
    /\ marker # None => marker[1] = marker[2]
    /\ mapCentre # None => mapCentre[1] = mapCentre[2]

\* C2: the polling thread never operates on a label, the marker or the map;
\* all it does to the UI is queue the notification.
C2_PollerNeverTouchesWidgets == pollerWidgetOps = {}

\* C3: when the fetch of __init__ fails, no exception leaves the constructor
\* and the constructed object has position, map centre and marker at (0, 0).
C3_CtorFailureFallsBack ==
    ctorFailed =>
        /\ mainPc # "raised"
        /\ mainPc = "constructed" =>
              /\ <<latitude, longitude>> = <<0, 0>>
              /\ mapCentre = <<0, 0>>
              /\ marker = <<0, 0>>

\* C4: when a fetch of the polling loop has failed, latitude, longitude and
\* count are what they were when that fetch started.
C4_FailedFetchLeavesState ==
    (pollPc = "except" /\ lastOutcome = "fail") =>
        <<latitude, longitude, count>> = fetchStart

\* C5 as stated: between increments the count equals the number of
\* successful fetches, the one of __init__ included.
C5_CountEqualsSuccessfulFetches ==
    pollPc # "inc" => count = ctorOk + loopOk

\* C5 amended: the count equals the number of successful fetches of the
\* polling loop (the fetch of __init__ is not counted) except between the
\* return of a fetch and line 125; every step leaves it or adds one, and only
\* the step after a successful fetch adds one.
C5_CountEqualsLoopSuccesses ==
    /\ [](pollPc # "inc" => count = loopOk)
    /\ [][\/ count' = count
          \/ count' = count + 1 /\ pollPc = "inc" /\ lastOutcome = "ok"]_vars

C5_Witness ==
    /\ pollPc = "sleep"
    /\ ctorOk = 1
    /\ count = 3
    /\ loopFetches = 5

\* C6: the polling thread is out of its loop only after quit() was called;
\* the except handler returns to the loop test, and the loop test with
\* running true starts the next fetch.
C6_LoopEndsOnlyByQuit ==
    /\ [](pollPc = "done" => quitCalls > 0 /\ ~running)
    /\ [][(pollPc = "except" /\ pollPc' # "except") => pollPc' = "test"]_vars
    /\ [][(pollPc = "test" /\ running /\ pollPc' # "test")
              => pollPc' = "call"]_vars

C6_Witness ==
    /\ pollPc = "fetch"
    /\ running
    /\ lastOutcome = "pending"
    /\ loopFetches - 1 > loopOk

\* C7: after a run of polling-loop fetches ending with a success, with the
\* iteration finished, no notification pending and no callback running, the
\* marker and the map centre are at the position of the last fetch and the
\* count is the number of successful polling-loop fetches.
C7_FinalDisplayIsLastSuccess ==
    (/\ ~rootDestroyed
     /\ lastOutcome = "ok"
     /\ pollPc \in {"sleep", "test"}
     /\ afterQueue = 0
     /\ uiPc = "idle")
    => /\ marker = <<LoopSample, LoopSample>>
       /\ mapCentre = <<LoopSample, LoopSample>>
       /\ count = loopOk

C7_Witness ==
    /\ ~rootDestroyed
    /\ lastOutcome = "ok"
    /\ pollPc = "sleep"
    /\ afterQueue = 0
    /\ uiPc = "idle"
    /\ loopFetches = 5
    /\ count = 4
    /\ marker = <<6, 6>>

\* C8: no step replaces the applied marker position (or map centre) by one
\* with an older latitude or an older longitude.
C8_AppliedInFetchOrder ==
    /\ [][(marker # None /\ marker' # None)
            => (marker'[1] >= marker[1] /\ marker'[2] >= marker[2])]_vars
    /\ [][(mapCentre # None /\ mapCentre' # None)
            => (mapCentre'[1] >= mapCentre[1]
                /\ mapCentre'[2] >= mapCentre[2])]_vars

\* The UI has applied the third polling-loop position or a later one while
\* a notification queued for an earlier fetch is still pending.
C8_Witness ==
    /\ enqueued >= 3
    /\ afterQueue >= 1
    /\ uiPc = "idle"
    /\ marker # None
    /\ marker[1] >= 4
    /\ marker = <<latitude, longitude>>

\* C9 as stated: with the iteration finished, as many notifications have
\* been queued as the count says.
C9_EnqueuedEqualsCount == IterationFinished => enqueued = count

\* C9 amended: while the root has not been destroyed, with the iteration
\* finished (or the next fetch in flight) the notifications queued equal the
\* count; in every state the count exceeds them by at most one.
C9_EnqueuedEqualsCountWhileAlive ==
    /\ (~rootDestroyed
        /\ pollPc \in {"sleep", "test", "call", "fetch", "write_lat",
                      "write_lon"})
       => enqueued = count
    /\ enqueued <= count
    /\ count <= enqueued + 1

C9_Witness ==
    /\ ~rootDestroyed
    /\ pollPc = "sleep"
    /\ enqueued = 3
    /\ count = 3
    /\ loopFetches = 4

\* C10: a second quit() does not raise and leaves the stopped, destroyed
\* state as the first call left it.
C10_SecondQuitDoesNotRaise ==
    quitCalls >= 2 => (~quitRaised /\ ~running /\ rootDestroyed)

\* The polling loop is active: the thread has been started and has not left
\* the loop.
PollLoopActive == pollPc \notin {"not_started", "done"}

\* C11: no step of update_marker_position issues a request, and while the
\* polling loop is active the UI thread has no request in flight: the one
\* request it ever made is the finished one of __init__.
C11_HandlerNeverFetches ==
    /\ [][(uiPc # "idle" \/ uiPc' # "idle")
            => mainFetches' = mainFetches]_vars
    /\ [](PollLoopActive => (mainPc # "ctor_fetch" /\ mainFetches = 1))

\* A callback is running on the UI thread while the polling thread waits
\* for a response.
C11_Witness ==
    /\ uiPc = "centre_lon"
    /\ pollPc = "fetch"
    /\ mainFetches = 1

\* C12: while a callback runs on the UI thread, the shared position being
\* that of the k-th successful polling-loop fetch, the shared count is k.
C12_PositionAndCountTogether ==
    (/\ uiPc # "idle"
     /\ lastOutcome = "ok"
     /\ <<latitude, longitude>> = <<LoopSample, LoopSample>>)
    => count = loopOk

\* C13: every request of the polling loop but the first is sent after a
\* sleep that returned since the request before it.
C13_SleepBetweenFetches ==
    (pollPc = "call" /\ loopFetches > 1) => slept

\* C14: once quit() has been called, the polling thread eventually leaves
\* its loop, wherever it was at that moment.
C14_QuitStopsPoller == (quitCalls > 0) ~> (pollPc = "done")

\* The thread has stopped after a quit() that arrived while it was inside an
\* iteration whose fetch succeeded.
C14_Witness ==
    /\ pollPc = "done"
    /\ quitCalls > 0
    /\ lastOutcome = "ok"
    /\ count > enqueued

\* C15: when update_marker_position returns, the three labels show the
\* position the marker was just set to and the current count.
C15_LabelsFollowHandler ==
    [][(uiPc # "idle" /\ uiPc' = "idle")
        => /\ <<lblLat', lblLon'>> = marker'
           /\ lblCount' = count']_vars

\* C16: at most one marker is ever created; a callback that finds a marker
\* creates none, repositions it and goes on to recentre the map, and only a
\* callback that finds no marker creates one.
C16_MarkerCreatedOnce ==
    /\ [](markersCreated <= 1)
    /\ [](marker # None => markersCreated = 1)
    /\ [][(uiPc = "marker_lon" /\ uiPc' # "marker_lon")
            => IF marker # None
               THEN /\ markersCreated' = markersCreated
                    /\ uiPc' = "centre_lat"
                    /\ marker' = <<uiLat, longitude>>
               ELSE markersCreated' = markersCreated + 1]_vars
    /\ [][(uiPc = "centre_lon" /\ uiPc' # "centre_lon")
            => (mapCentre' = <<uiLat, longitude>>
                /\ markersCreated' = markersCreated)]_vars

\* The marker made by initialize_marker has been moved by a callback to the
\* position of a later fetch and the map recentred on it.
C16_Witness ==
    /\ markersCreated = 1
    /\ uiPc = "idle"
    /\ marker = <<3, 3>>
    /\ mapCentre = <<3, 3>>

\* C17 as stated: the sleep is over as soon as quit() has been called, so no
\* time of the interval passes with the thread still asleep after a quit().
C17_SleepEndsOnCancel ==
    [][(pollPc = "sleep" /\ quitCalls > 0) => sleepLeft' = sleepLeft]_vars

\* C17 amended: the thread leaves the sleep only when the whole interval has
\* elapsed, whether or not quit() was called meanwhile, and goes to the loop
\* test.
C17_SleepEndsOnlyOnExpiry ==
    [][(pollPc = "sleep" /\ pollPc' # "sleep")
        => (sleepLeft = 0 /\ pollPc' = "test")]_vars

\* quit() has run and the thread is still asleep with part of the interval
\* gone and part of it left.
C17_Witness ==
    /\ pollPc = "sleep"
    /\ quitCalls > 0
    /\ ~running
    /\ sleepLeft > 0
    /\ sleepLeft < SleepTicks

\* C18: the polling loop sends at most one request after quit() was called.
C18_AtMostOneFetchAfterQuit == fetchesAfterQuit <= 1

\* The thread has stopped after sending one request that followed quit().
C18_Witness ==
    /\ fetchesAfterQuit = 1
    /\ pollPc = "done"
    /\ loopFetches > loopOk

\* C19: the successful fetch of __init__ leaves the count at 0 up to the
\* start of the polling thread; afterwards the count is the number of
\* polling-loop fetches that reached line 125, one less than the number of
\* all successful fetches once the increment is made.
C19_CtorFetchNotCounted ==
    /\ (ctorOk = 1 /\ pollPc = "not_started")
          => (count = 0 /\ lblCount \in {Unset, 0})
    /\ (pollPc = "test" /\ loopFetches = 0) => count = 0
    /\ pollPc = "inc" => count = loopOk - 1
    /\ pollPc \notin {"not_started", "inc"} => count + 1 = ctorOk + loopOk

\* Two polling-loop fetches and the one of __init__ have succeeded; the
\* second increment has not been made yet.
C19_Witness ==
    /\ ctorOk = 1
    /\ loopOk = 2
    /\ pollPc = "inc"
    /\ count = 1

====
